---- MODULE Spec2Model ----
(***************************************************************************)
(* A model of src/src/data.js: getInteractions and its helpers addRecord,  *)
(* countReplies, countRetweets, countLikes and countMentions.              *)
(*                                                                         *)
(* Representation.                                                         *)
(*   - A handle (screen_name) is a sequence of letters, so that            *)
(*     String.prototype.toLowerCase is modelled letter by letter.          *)
(*   - The interactions object is a sequence of records in insertion       *)
(*     order, which is the order Object.entries gives for the non-index    *)
(*     string keys the account ids are.                                    *)
(*   - total is kept in halves (field total2 = 2 * total), so the weights  *)
(*     0.5, 1, 1.5, 2 are the integers 1, 2, 3, 4.                         *)
(*   - null and undefined are the empty sequence for handles, embedded     *)
(*     posts, users and avatars, and the string "null" for an id.          *)
(*   - globalThis.followers is a set of ids: the code only ever calls      *)
(*     includes on it.                                                     *)
(***************************************************************************)
EXTENDS Integers, Sequences, FiniteSets, TLC

\* ------------------------------------------------------------------ data

Null == "null"
Undefined == <<>>

\* handles
al == <<"a", "l">>
Al == <<"A", "l">>
bo == <<"b", "o">>
Bo == <<"B", "o">>
cy == <<"c", "y">>

Ids == {"u0", "u1", "u2"}

User(h, i) == [screen_name |-> h, id_str |-> i]

\* a mention or a liked post: only its author is read
AuthoredPost(u) == [user |-> u]

\* a timeline post: the reply target fields and the embedded original post
NoReply == [in_reply_to_user_id_str |-> Null, in_reply_to_screen_name |-> Undefined]
ReplyTo(u) == [in_reply_to_user_id_str |-> u.id_str, in_reply_to_screen_name |-> u.screen_name]
NoRetweet == Undefined
RetweetNoUser == <<[user |-> Undefined]>>
RetweetOf(u) == <<[user |-> <<u>>]>>
TimelinePost(reply, retweet) ==
    [in_reply_to_user_id_str |-> reply.in_reply_to_user_id_str,
     in_reply_to_screen_name |-> reply.in_reply_to_screen_name,
     retweeted_status |-> retweet]

Range(f) == {f[i] : i \in DOMAIN f}

\* all sequences over S of length at most n
RECURSIVE SeqUpTo(_, _)
SeqUpTo(S, n) ==
    IF n = 0 THEN {<<>>}
    ELSE SeqUpTo(S, n - 1)
         \cup {Append(q, x) : q \in {r \in SeqUpTo(S, n - 1) : Len(r) = n - 1}, x \in S}

AuthoredPosts(users) == {AuthoredPost(u) : u \in users}
TimelinePosts(users) ==
    {TimelinePost(r, t) :
        r \in {NoReply} \cup {ReplyTo(u) : u \in users},
        t \in {NoRetweet, RetweetNoUser} \cup {RetweetOf(u) : u \in users}}

\* ------------------------------------------------------- pure functions

LowerChar(c) ==
    CASE c = "A" -> "a"
      [] c = "B" -> "b"
      [] c = "C" -> "c"
      [] OTHER -> c

RECURSIVE toLowerCase(_)
toLowerCase(s) ==
    IF s = <<>> THEN <<>> ELSE <<LowerChar(Head(s))>> \o toLowerCase(Tail(s))

includes(arr, x) == x \in arr

IndexOf(interactions, user_id) ==
    IF \E i \in DOMAIN interactions : interactions[i].id = user_id
    THEN CHOOSE i \in DOMAIN interactions : interactions[i].id = user_id
    ELSE 0

NewRecord(screen_name, user_id) ==
    [screen_name |-> screen_name, id |-> user_id,
     reply |-> 0, retweet |-> 0, like |-> 0, mention |-> 0]

addRecordOverwrite(interactions, screen_name, user_id, type) ==
    LET i == IndexOf(interactions, user_id)
        r == [NewRecord(screen_name, user_id) EXCEPT ![type] = 1]
    IN IF i # 0 THEN [interactions EXCEPT ![i] = r] ELSE Append(interactions, r)

addRecord(interactions, screen_name, user_id, type) ==
    LET i == IndexOf(interactions, user_id)
    IN IF i # 0
       THEN [interactions EXCEPT ![i][type] = @ + 1]
       ELSE Append(interactions,
                   [NewRecord(screen_name, user_id) EXCEPT ![type] = 1])

\* the guards of the four loops
notSelf(candidate, screen_name) == toLowerCase(candidate) # screen_name

isFollowerAlways(followers, id) == TRUE

isFollower(followers, id) == includes(followers, id)

replyCounts(post, screen_name, followers) ==
    /\ post.in_reply_to_user_id_str # Null
    /\ notSelf(post.in_reply_to_screen_name, screen_name)
    /\ isFollower(followers, post.in_reply_to_user_id_str)

retweetCounts(post, screen_name, followers) ==
    /\ post.retweeted_status # Undefined
    /\ post.retweeted_status[1].user # Undefined
    /\ notSelf(post.retweeted_status[1].user[1].screen_name, screen_name)
    /\ isFollower(followers, post.retweeted_status[1].user[1].id_str)

authorCounts(post, screen_name, followers) ==
    /\ notSelf(post.user.screen_name, screen_name)
    /\ isFollower(followers, post.user.id_str)

RECURSIVE countReplies(_, _, _, _)
countReplies(interactions, timeline, screen_name, followers) ==
    IF timeline = <<>> THEN interactions
    ELSE LET post == Head(timeline)
         IN countReplies(
                IF replyCounts(post, screen_name, followers)
                THEN addRecord(interactions, post.in_reply_to_screen_name,
                               post.in_reply_to_user_id_str, "reply")
                ELSE interactions,
                Tail(timeline), screen_name, followers)

RECURSIVE countRetweets(_, _, _, _)
countRetweets(interactions, timeline, screen_name, followers) ==
    IF timeline = <<>> THEN interactions
    ELSE LET post == Head(timeline)
         IN countRetweets(
                IF retweetCounts(post, screen_name, followers)
                THEN addRecord(interactions,
                               post.retweeted_status[1].user[1].screen_name,
                               post.retweeted_status[1].user[1].id_str, "retweet")
                ELSE interactions,
                Tail(timeline), screen_name, followers)

RECURSIVE countLikes(_, _, _, _)
countLikes(interactions, likes, screen_name, followers) ==
    IF likes = <<>> THEN interactions
    ELSE LET post == Head(likes)
         IN countLikes(
                IF authorCounts(post, screen_name, followers)
                THEN addRecord(interactions, post.user.screen_name,
                               post.user.id_str, "like")
                ELSE interactions,
                Tail(likes), screen_name, followers)

RECURSIVE countMentions(_, _, _, _)
countMentions(interactions, mentions, screen_name, followers) ==
    IF mentions = <<>> THEN interactions
    ELSE LET post == Head(mentions)
         IN countMentions(
                IF authorCounts(post, screen_name, followers)
                THEN addRecord(interactions, post.user.screen_name,
                               post.user.id_str, "mention")
                ELSE interactions,
                Tail(mentions), screen_name, followers)

\* the weights, in halves
LikeWeight2 == 1
ReplyWeight2 == 2
RetweetWeight2 == 3
MentionWeight2 == 4

total2Unweighted(interaction) ==
    interaction.like + interaction.reply + interaction.retweet + interaction.mention

total2(interaction) ==
    interaction.like * LikeWeight2 + interaction.reply * ReplyWeight2
    + interaction.retweet * RetweetWeight2 + interaction.mention * MentionWeight2

tallyEntry(interaction) ==
    [id |-> interaction.id, screen_name |-> interaction.screen_name,
     total2 |-> total2(interaction)]

\* the loop over Object.entries(interactions)
RECURSIVE makeTally(_)
makeTally(interactions) ==
    IF interactions = <<>> THEN <<>>
    ELSE <<tallyEntry(Head(interactions))>> \o makeTally(Tail(interactions))

\* Array.prototype.sort is stable: e goes after every entry the comparator
\* b.total - a.total does not put it before
RECURSIVE insertSorted(_, _)
insertSorted(sorted, e) ==
    IF sorted = <<>> THEN <<e>>
    ELSE IF e.total2 > Head(sorted).total2 THEN <<e>> \o sorted
    ELSE <<Head(sorted)>> \o insertSorted(Tail(sorted), e)

RECURSIVE sortDescending(_)
sortDescending(tally) ==
    IF tally = <<>> THEN <<>>
    ELSE insertSorted(sortDescending(SubSeq(tally, 1, Len(tally) - 1)),
                      tally[Len(tally)])

sortTallyNone(tally) == tally

sortTally(tally) == sortDescending(tally)

\* layers.reduce((total, current) => total + current, 0)
RECURSIVE sumLayers(_)
sumLayers(layers) ==
    IF layers = <<>> THEN 0 ELSE Head(layers) + sumLayers(Tail(layers))

Min(a, b) == IF a < b THEN a ELSE b

\* arr.slice(0, count)
slice(arr, count) == SubSeq(arr, 1, Min(count, Len(arr)))

\* the deleteCount of head.splice(0, layers[i]): undefined converts to 0
deleteCount(layers, i) == IF i \in DOMAIN layers THEN layers[i] ELSE 0

\* head.splice(0, n): the removed entries, and what is left of head
spliced(arr, n) == SubSeq(arr, 1, Min(n, Len(arr)))
afterSplice(arr, n) == SubSeq(arr, Min(n, Len(arr)) + 1, Len(arr))

\* the three pushes of lines 191-193
partition(head, layers) ==
    LET n0 == deleteCount(layers, 1)
        h1 == afterSplice(head, n0)
        n1 == deleteCount(layers, 2)
        h2 == afterSplice(h1, n1)
        n2 == deleteCount(layers, 3)
    IN <<spliced(head, n0), spliced(h1, n1), spliced(h2, n2)>>

\* head.map((u) => u.id)
RECURSIVE idsOf(_)
idsOf(head) == IF head = <<>> THEN <<>> ELSE <<Head(head).id>> \o idsOf(Tail(head))

\* i.avatar = avatars[i.id]: undefined when the id is no key of avatars
withAvatar(entry, avatars) ==
    [id |-> entry.id, screen_name |-> entry.screen_name, total2 |-> entry.total2,
     avatar |-> IF entry.id \in DOMAIN avatars THEN avatars[entry.id] ELSE Undefined]

\* for (const i of head) i.avatar = avatars[i.id]
RECURSIVE attach(_, _)
attach(head, avatars) ==
    IF head = <<>> THEN <<>>
    ELSE <<withAvatar(Head(head), avatars)>> \o attach(Tail(head), avatars)

\* -------------------------------------------------------- the program

Procs == {1, 2}

VARIABLES
    followers,      \* globalThis.followers
    friends,        \* globalThis.friends
    pc,             \* where each getInteractions computation stands
    screen_name,    \* its arguments
    layers,
    mentions,       \* its locals
    timeline,
    liked,
    interactions,
    head,
    avatars,
    result,         \* what it returned
    error,          \* what it was rejected with
    calls,          \* the collaborator calls it issued, in order
    settled,        \* how each of them ended: "ok" or the error
    fetched,        \* history: the follower set its own getFollowers returned
    perm            \* the reordered recording under test (SpecOrder only)

vars == <<followers, friends, pc, screen_name, layers, mentions, timeline, liked,
          interactions, head, avatars, result, error, calls, settled, fetched,
          perm>>

locals == <<mentions, timeline, liked, interactions, head, avatars, result>>

AwaitPcs == {"awaitFollowers", "awaitFriends", "awaitMentions", "awaitTimeline",
             "awaitLiked", "awaitAvatars"}

\* positions inside the synchronous stretch between two awaits
SyncPcs == {"countMentions", "countReplies", "countRetweets", "countLikes", "rank"}

Errors == {"E1", "E2"}

AvatarUrl(id) == <<"img", id>>

Call_(fn, arg) == [fn |-> fn, arg |-> arg]

\* a computation runs from one await to the next without interruption
SyncFree(p) == \A q \in Procs \ {p} : pc[q] \notin SyncPcs

Init ==
    /\ followers = {}
    /\ friends = {}
    /\ pc = [p \in Procs |-> "idle"]
    /\ screen_name = [p \in Procs |-> <<>>]
    /\ layers = [p \in Procs |-> <<>>]
    /\ mentions = [p \in Procs |-> <<>>]
    /\ timeline = [p \in Procs |-> <<>>]
    /\ liked = [p \in Procs |-> <<>>]
    /\ interactions = [p \in Procs |-> <<>>]
    /\ head = [p \in Procs |-> <<>>]
    /\ avatars = [p \in Procs |-> <<>>]
    /\ result = [p \in Procs |-> <<>>]
    /\ error = [p \in Procs |-> Null]
    /\ calls = [p \in Procs |-> <<>>]
    /\ settled = [p \in Procs |-> <<>>]
    /\ fetched = [p \in Procs |-> {}]
    /\ perm = [applied |-> {}, mapping |-> <<>>]

\* the await resumes with a value: the pending call is settled, the next one issued
Resume(p, next, fn, arg) ==
    /\ pc' = [pc EXCEPT ![p] = next]
    /\ settled' = [settled EXCEPT ![p] = Append(@, "ok")]
    /\ calls' = [calls EXCEPT ![p] = Append(@, Call_(fn, arg))]

\* getInteractions(screen_name, layers) up to its first await
Call(p, subjects, requests) ==
    /\ pc[p] = "idle"
    /\ SyncFree(p)
    /\ \E s \in subjects, ls \in requests :
        /\ screen_name' = [screen_name EXCEPT ![p] = s]
        /\ layers' = [layers EXCEPT ![p] = ls]
        /\ calls' = [calls EXCEPT ![p] = <<Call_("getFollowers", s)>>]
    /\ pc' = [pc EXCEPT ![p] = "awaitFollowers"]
    /\ UNCHANGED <<followers, friends, locals, error, settled, fetched, perm>>

FollowersReturn(p, followerSets) ==
    /\ pc[p] = "awaitFollowers"
    /\ SyncFree(p)
    /\ \E f \in followerSets :
        /\ followers' = f
        /\ fetched' = [fetched EXCEPT ![p] = f]
    /\ Resume(p, "awaitFriends", "getFriends", screen_name[p])
    /\ UNCHANGED <<friends, screen_name, layers, locals, error, perm>>

FriendsReturn(p, friendSets) ==
    /\ pc[p] = "awaitFriends"
    /\ SyncFree(p)
    /\ \E f \in friendSets : friends' = f
    /\ Resume(p, "awaitMentions", "getMentions", screen_name[p])
    /\ UNCHANGED <<followers, screen_name, layers, locals, error, fetched, perm>>

MentionsReturn(p, lists) ==
    /\ pc[p] = "awaitMentions"
    /\ SyncFree(p)
    /\ \E m \in lists : mentions' = [mentions EXCEPT ![p] = m]
    /\ Resume(p, "awaitTimeline", "getTimeline", screen_name[p])
    /\ UNCHANGED <<followers, friends, screen_name, layers, timeline, liked,
                   interactions, head, avatars, result, error, fetched, perm>>

TimelineReturn(p, lists) ==
    /\ pc[p] = "awaitTimeline"
    /\ SyncFree(p)
    /\ \E t \in lists : timeline' = [timeline EXCEPT ![p] = t]
    /\ Resume(p, "awaitLiked", "getLiked", screen_name[p])
    /\ UNCHANGED <<followers, friends, screen_name, layers, mentions, liked,
                   interactions, head, avatars, result, error, fetched, perm>>

\* the last fetch resumes; const interactions = {}
LikedReturn(p, lists) ==
    /\ pc[p] = "awaitLiked"
    /\ SyncFree(p)
    /\ \E l \in lists : liked' = [liked EXCEPT ![p] = l]
    /\ interactions' = [interactions EXCEPT ![p] = <<>>]
    /\ pc' = [pc EXCEPT ![p] = "countMentions"]
    /\ settled' = [settled EXCEPT ![p] = Append(@, "ok")]
    /\ UNCHANGED <<followers, friends, screen_name, layers, mentions, timeline,
                   head, avatars, result, error, calls, fetched, perm>>

Record(p, at, next, counted) ==
    /\ pc[p] = at
    /\ interactions' = [interactions EXCEPT ![p] = counted]
    /\ pc' = [pc EXCEPT ![p] = next]
    /\ UNCHANGED <<followers, friends, screen_name, layers, mentions, timeline,
                   liked, head, avatars, result, error, calls, settled, fetched, perm>>

RecordMentions(p) ==
    Record(p, "countMentions", "countReplies",
           countMentions(interactions[p], mentions[p], screen_name[p], followers))

RecordReplies(p) ==
    Record(p, "countReplies", "countRetweets",
           countReplies(interactions[p], timeline[p], screen_name[p], followers))

RecordRetweets(p) ==
    Record(p, "countRetweets", "countLikes",
           countRetweets(interactions[p], timeline[p], screen_name[p], followers))

RecordLikes(p) ==
    Record(p, "countLikes", "rank",
           countLikes(interactions[p], liked[p], screen_name[p], followers))

\* lines 144-184: tally, sort, maxCount, head, ids, and the call of getAvatars
ranked(p) == slice(sortTally(makeTally(interactions[p])), sumLayers(layers[p]))

Rank(p) ==
    /\ pc[p] = "rank"
    /\ head' = [head EXCEPT ![p] = ranked(p)]
    /\ calls' = [calls EXCEPT ![p] = Append(@, Call_("getAvatars", idsOf(ranked(p))))]
    /\ pc' = [pc EXCEPT ![p] = "awaitAvatars"]
    /\ UNCHANGED <<followers, friends, screen_name, layers, mentions, timeline,
                   liked, interactions, avatars, result, error, settled, fetched, perm>>

\* lines 184-195: the avatars arrive, are attached, and head is split into layers.
\* The splices empty head of what they return.
AvatarsReturn(p) ==
    /\ pc[p] = "awaitAvatars"
    /\ SyncFree(p)
    /\ \E known \in SUBSET {head[p][i].id : i \in DOMAIN head[p]} :
        LET av == [i \in known |-> AvatarUrl(i)]
            enriched == attach(head[p], av)
        IN /\ avatars' = [avatars EXCEPT ![p] = av]
           /\ result' = [result EXCEPT ![p] = partition(enriched, layers[p])]
           /\ head' = [head EXCEPT ![p] =
                          afterSplice(afterSplice(afterSplice(enriched,
                              deleteCount(layers[p], 1)),
                              deleteCount(layers[p], 2)),
                              deleteCount(layers[p], 3))]
    /\ pc' = [pc EXCEPT ![p] = "returned"]
    /\ settled' = [settled EXCEPT ![p] = Append(@, "ok")]
    /\ UNCHANGED <<followers, friends, screen_name, layers, mentions, timeline,
                   liked, interactions, error, calls, fetched, perm>>

\* an awaited call fails: no try/catch, so the promise of getInteractions is
\* rejected with the same error
rejectSwallowed(p, e) ==
    /\ pc' = [pc EXCEPT ![p] = "returned"]
    /\ settled' = [settled EXCEPT ![p] = Append(@, e)]
    /\ UNCHANGED <<error, calls>>

reject(p, e) ==
    /\ pc' = [pc EXCEPT ![p] = "rejected"]
    /\ error' = [error EXCEPT ![p] = e]
    /\ settled' = [settled EXCEPT ![p] = Append(@, e)]
    /\ UNCHANGED calls

Fail(p) ==
    /\ pc[p] \in AwaitPcs
    /\ SyncFree(p)
    /\ \E e \in Errors : reject(p, e)
    /\ UNCHANGED <<followers, friends, screen_name, layers, locals, fetched, perm>>

\* ------------------------------------------- one computation: Spec

\* the accounts the fetched posts refer to
Users == {User(Al, "u0"), User(bo, "u1"), User(cy, "u2")}

\* the subject handle, as the caller spells it
Subjects == {al, Al}

MaxMentions == 1
MaxTimeline == 2
MaxLikes == 1

Requests == {<<1, 1>>, <<1, 1, 1>>}

FriendSets == {{}}

Next ==
    \E p \in {1} :
        \/ Call(p, Subjects, Requests)
        \/ FollowersReturn(p, SUBSET Ids)
        \/ FriendsReturn(p, FriendSets)
        \/ MentionsReturn(p, SeqUpTo(AuthoredPosts(Users), MaxMentions))
        \/ TimelineReturn(p, SeqUpTo(TimelinePosts(Users), MaxTimeline))
        \/ LikedReturn(p, SeqUpTo(AuthoredPosts(Users), MaxLikes))
        \/ RecordMentions(p)
        \/ RecordReplies(p)
        \/ RecordRetweets(p)
        \/ RecordLikes(p)
        \/ Rank(p)
        \/ AvatarsReturn(p)
        \/ Fail(p)

Spec == Init /\ [][Next]_vars

\* --------------------------- one computation, any layer request: SpecLayers

di == <<"d", "i">>

LayersSubjects == {di}

MaxLayers == 4
MaxLayerSize == 2
LayersMaxPosts == 1

LayerRequests == SeqUpTo(0..MaxLayerSize, MaxLayers)

LayersFollowerSets == {Ids, {"u1", "u2"}}

NextLayers ==
    \E p \in {1} :
        \/ Call(p, LayersSubjects, LayerRequests)
        \/ FollowersReturn(p, LayersFollowerSets)
        \/ FriendsReturn(p, FriendSets)
        \/ MentionsReturn(p, SeqUpTo(AuthoredPosts(Users), LayersMaxPosts))
        \/ TimelineReturn(p, SeqUpTo(TimelinePosts(Users), LayersMaxPosts))
        \/ LikedReturn(p, SeqUpTo(AuthoredPosts(Users), LayersMaxPosts))
        \/ RecordMentions(p)
        \/ RecordReplies(p)
        \/ RecordRetweets(p)
        \/ RecordLikes(p)
        \/ Rank(p)
        \/ AvatarsReturn(p)
        \/ Fail(p)

SpecLayers == Init /\ [][NextLayers]_vars

\* ------------------------------ two concurrent computations: SpecConc

ConcSubjects(p) == IF p = 1 THEN {al} ELSE {bo}

ConcUsers == {User(cy, "u2")}

ConcFollowerSets == {{}, {"u2"}}

ConcRequests == {<<1, 1, 1>>}

ConcMaxPosts == 1

NextConc ==
    \E p \in Procs :
        \/ Call(p, ConcSubjects(p), ConcRequests)
        \/ FollowersReturn(p, ConcFollowerSets)
        \/ FriendsReturn(p, FriendSets)
        \/ MentionsReturn(p, SeqUpTo(AuthoredPosts(ConcUsers), ConcMaxPosts))
        \/ TimelineReturn(p, SeqUpTo(TimelinePosts(ConcUsers), ConcMaxPosts))
        \/ LikedReturn(p, SeqUpTo(AuthoredPosts(ConcUsers), ConcMaxPosts))
        \/ RecordMentions(p)
        \/ RecordReplies(p)
        \/ RecordRetweets(p)
        \/ RecordLikes(p)
        \/ Rank(p)
        \/ AvatarsReturn(p)
        \/ Fail(p)

SpecConc == Init /\ [][NextConc]_vars

\* ------------------- the four count functions in any order: SpecOrder

CountFns == {"countMentions", "countReplies", "countRetweets", "countLikes"}

PermutationsOf(list) ==
    {q \in SeqUpTo(Range(list), Len(list)) :
        /\ Len(q) = Len(list)
        /\ \A x \in Range(list) :
            Cardinality({i \in DOMAIN q : q[i] = x})
            = Cardinality({i \in DOMAIN list : list[i] = x})}

\* the collection a count function reads
collectionOf(p, fn) ==
    CASE fn = "countMentions" -> mentions[p]
      [] fn = "countLikes" -> liked[p]
      [] OTHER -> timeline[p]

applyCount(p, fn, mapping, list) ==
    CASE fn = "countMentions" -> countMentions(mapping, list, screen_name[p], followers)
      [] fn = "countReplies" -> countReplies(mapping, list, screen_name[p], followers)
      [] fn = "countRetweets" -> countRetweets(mapping, list, screen_name[p], followers)
      [] OTHER -> countLikes(mapping, list, screen_name[p], followers)

\* a second recording of the same fetched data: the count functions one at a
\* time in any order, each over any permutation of its collection
Reorder(p) ==
    /\ pc[p] = "rank"
    /\ \E fn \in CountFns \ perm.applied :
        \E list \in PermutationsOf(collectionOf(p, fn)) :
            perm' = [applied |-> perm.applied \cup {fn},
                     mapping |-> applyCount(p, fn, perm.mapping, list)]
    /\ UNCHANGED <<followers, friends, pc, screen_name, layers, locals, error,
                   calls, settled, fetched>>

OrderUsers == {User(bo, "u1"), User(Bo, "u1"), User(cy, "u2")}

OrderSubjects == {al, bo}

OrderFollowerSets == {{"u1"}, {"u1", "u2"}}

OrderMaxPosts == 2
OrderMaxTimeline == 1

NextOrder ==
    \E p \in {1} :
        \/ Call(p, OrderSubjects, ConcRequests)
        \/ FollowersReturn(p, OrderFollowerSets)
        \/ FriendsReturn(p, FriendSets)
        \/ MentionsReturn(p, SeqUpTo(AuthoredPosts(OrderUsers), OrderMaxPosts))
        \/ TimelineReturn(p, SeqUpTo(TimelinePosts(OrderUsers), OrderMaxTimeline))
        \/ LikedReturn(p, SeqUpTo(AuthoredPosts(OrderUsers), OrderMaxPosts))
        \/ RecordMentions(p)
        \/ RecordReplies(p)
        \/ RecordRetweets(p)
        \/ RecordLikes(p)
        \/ Reorder(p)

SpecOrder == Init /\ [][NextOrder]_vars

\* ------------------------------------------------------------- claims

\* what the claims speak of, stated without the code's helpers

SameHandle(a, b) == toLowerCase(a) = toLowerCase(b)

Recorded(p) == pc[p] \in {"rank", "awaitAvatars", "returned"}

RECURSIVE SumOf(_, _)
SumOf(mapping, type) ==
    IF mapping = <<>> THEN 0
    ELSE Head(mapping)[type] + SumOf(Tail(mapping), type)

RECURSIVE SumSeq(_)
SumSeq(ns) == IF ns = <<>> THEN 0 ELSE Head(ns) + SumSeq(Tail(ns))

RECURSIVE Flatten(_)
Flatten(ls) == IF ls = <<>> THEN <<>> ELSE Head(ls) \o Flatten(Tail(ls))

\* the candidate is a follower and is not the subject
Qualifies(p, id, handle) ==
    /\ id \in fetched[p]
    /\ ~SameHandle(handle, screen_name[p])

IsReply(post) == post.in_reply_to_user_id_str # Null
IsRetweet(post) ==
    /\ post.retweeted_status # Undefined
    /\ post.retweeted_status[1].user # Undefined
Original(post) == post.retweeted_status[1].user[1]

ExpectedMentions(p) ==
    Cardinality({k \in DOMAIN mentions[p] :
        Qualifies(p, mentions[p][k].user.id_str, mentions[p][k].user.screen_name)})

ExpectedLikes(p) ==
    Cardinality({k \in DOMAIN liked[p] :
        Qualifies(p, liked[p][k].user.id_str, liked[p][k].user.screen_name)})

ExpectedReplies(p) ==
    Cardinality({k \in DOMAIN timeline[p] :
        /\ IsReply(timeline[p][k])
        /\ Qualifies(p, timeline[p][k].in_reply_to_user_id_str,
                     timeline[p][k].in_reply_to_screen_name)})

ExpectedRetweets(p) ==
    Cardinality({k \in DOMAIN timeline[p] :
        /\ IsRetweet(timeline[p][k])
        /\ Qualifies(p, Original(timeline[p][k]).id_str,
                     Original(timeline[p][k]).screen_name)})

CountsConserved(p) ==
    /\ SumOf(interactions[p], "mention") = ExpectedMentions(p)
    /\ SumOf(interactions[p], "reply") = ExpectedReplies(p)
    /\ SumOf(interactions[p], "retweet") = ExpectedRetweets(p)
    /\ SumOf(interactions[p], "like") = ExpectedLikes(p)

\* C1: after the recording phase the sum over all records of each count type
\* equals the number of input items of that type whose candidate is a follower
\* and is not the subject (its handle differs from the subject's, ignoring case).
C1_CountsConserved == Recorded(1) => CountsConserved(1)

\* C1 holds when the caller spells the subject handle in lower case
C1_LowerCaseSubject ==
    (Recorded(1) /\ screen_name[1] = toLowerCase(screen_name[1])) => CountsConserved(1)

Returned(p) == Flatten(result[p])

\* C2: whatever the letter case of the subject handle, no record and no entry
\* of an output layer carries a handle equal to the subject's ignoring case.
C2_SelfNeverRecorded ==
    /\ \A i \in DOMAIN interactions[1] :
        ~SameHandle(interactions[1][i].screen_name, screen_name[1])
    /\ \A i \in DOMAIN Returned(1) :
        ~SameHandle(Returned(1)[i].screen_name, screen_name[1])

\* C2 holds when the caller spells the subject handle in lower case
C2_LowerCaseSubject ==
    screen_name[1] = toLowerCase(screen_name[1]) => C2_SelfNeverRecorded

Weighted(r) == r.like + 2 * r.reply + 3 * r.retweet + 4 * r.mention

TotalOfFinalCounts(p, e) ==
    \E i \in DOMAIN interactions[p] :
        /\ interactions[p][i].id = e.id
        /\ e.total2 = Weighted(interactions[p][i])

ExampleInputs(p) ==
    /\ fetched[p] = {"u1", "u2"}
    /\ mentions[p] = <<AuthoredPost(User(bo, "u1"))>>
    /\ timeline[p] = <<TimelinePost(ReplyTo(User(cy, "u2")), NoRetweet),
                       TimelinePost(NoReply, RetweetOf(User(bo, "u1")))>>
    /\ liked[p] = <<AuthoredPost(User(cy, "u2"))>>

\* C8: the total of every entry of the ranked head and of the returned layers
\* is, in halves, like + 2*reply + 3*retweet + 4*mention of the account's final
\* counts; in the example u1 gets 3.5 (7 halves) and u2 gets 1.5 (3 halves).
C8_TotalFromFinalCounts ==
    /\ pc[1] \in {"awaitAvatars", "returned"} =>
        \A i \in DOMAIN head[1] : TotalOfFinalCounts(1, head[1][i])
    /\ pc[1] = "returned" =>
        \A i \in DOMAIN Returned(1) : TotalOfFinalCounts(1, Returned(1)[i])
    /\ (pc[1] = "returned" /\ ExampleInputs(1)) =>
        /\ \E i \in DOMAIN Returned(1) :
            Returned(1)[i].id = "u1" /\ Returned(1)[i].total2 = 7
        /\ \E i \in DOMAIN Returned(1) :
            Returned(1)[i].id = "u2" /\ Returned(1)[i].total2 = 3

C8_Witness == pc[1] = "returned" /\ ExampleInputs(1) /\ Len(Returned(1)) = 2

\* C10: a collaborator call that fails rejects getInteractions with that same
\* error: the failed call is the last one issued, and no layers are returned.
C10_FailurePropagates ==
    /\ \A k \in DOMAIN settled[1] :
        settled[1][k] # "ok" =>
            /\ pc[1] = "rejected"
            /\ error[1] = settled[1][k]
            /\ k = Len(calls[1])
            /\ result[1] = <<>>
    /\ pc[1] = "rejected" =>
        /\ Len(settled[1]) = Len(calls[1])
        /\ settled[1][Len(settled[1])] \in Errors

\* getAvatars, the sixth call, failed with E2 after five fetches succeeded
C10_Witness ==
    /\ pc[1] = "rejected"
    /\ error[1] = "E2"
    /\ Len(calls[1]) = 6
    /\ calls[1][6].fn = "getAvatars"
    /\ interactions[1] # <<>>

\* the ranked, truncated and enriched list the layers are cut from
Enriched(p) == attach(ranked(p), avatars[p])

Offset(p, i) == Min(SumSeq(SubSeq(layers[p], 1, i - 1)), Len(Enriched(p)))

LayersAsRequested(p) ==
    /\ Len(result[p]) = Len(layers[p])
    /\ \A i \in DOMAIN layers[p] :
        result[p][i] = SubSeq(Enriched(p), Offset(p, i) + 1,
                              Min(Offset(p, i) + layers[p][i], Len(Enriched(p))))
    /\ Returned(p) = Enriched(p)

\* C4: for a layer request of any length n, exactly n layers are returned,
\* layer i holds the next min(layers[i], entries remaining) entries of the
\* ranked list, and the layers concatenated are the truncated ranked list.
C4_LayersAsRequested == pc[1] = "returned" => LayersAsRequested(1)

\* C4 holds for the requests of exactly three layers
C4_ThreeLayers ==
    (pc[1] = "returned" /\ Len(layers[1]) = 3) => LayersAsRequested(1)

\* C5: the sequence passed to the avatar fetch is sorted by total, largest
\* first, has exactly min(sum(layers), number of recorded accounts) entries,
\* each a distinct recorded account with its own total and none a padding
\* entry, and every account left out has a total no larger than any kept.
C5_RankedAndTruncated ==
    pc[1] = "awaitAvatars" =>
        LET h == head[1]
            m == interactions[1]
        IN /\ \A i, j \in DOMAIN h : i < j => h[i].total2 >= h[j].total2
           /\ Len(h) = Min(SumSeq(layers[1]), Len(m))
           /\ \A i, j \in DOMAIN h : h[i].id = h[j].id => i = j
           /\ \A i \in DOMAIN h : TotalOfFinalCounts(1, h[i])
           /\ \A j \in DOMAIN m :
                (\A i \in DOMAIN h : h[i].id # m[j].id) =>
                    \A i \in DOMAIN h : Weighted(m[j]) <= h[i].total2
           /\ calls[1][Len(calls[1])].fn = "getAvatars"
           /\ Len(calls[1][Len(calls[1])].arg) = Len(h)
           /\ \A i \in DOMAIN h : calls[1][Len(calls[1])].arg[i] = h[i].id

\* three accounts recorded, the first below the second in rank, two kept
C5_Witness ==
    /\ pc[1] = "awaitAvatars"
    /\ Len(interactions[1]) = 3
    /\ Len(head[1]) = 2
    /\ Weighted(interactions[1][1]) < Weighted(interactions[1][2])
    /\ head[1][1].total2 > head[1][2].total2

AvatarCalls(p) == {k \in DOMAIN calls[p] : calls[p][k].fn = "getAvatars"}

AvatarOrNone(p, id) == IF id \in DOMAIN avatars[p] THEN avatars[p][id] ELSE Undefined

AvatarFetchAsClaimed(p) ==
    /\ Cardinality(AvatarCalls(p)) <= 1
    /\ pc[p] = "returned" => Cardinality(AvatarCalls(p)) = 1
    /\ \A k \in AvatarCalls(p) :
        /\ k = 6
        /\ \A j \in 1..5 : settled[p][j] = "ok"
        /\ <<calls[p][1].fn, calls[p][2].fn, calls[p][3].fn, calls[p][4].fn,
             calls[p][5].fn>>
           = <<"getFollowers", "getFriends", "getMentions", "getTimeline", "getLiked">>
        /\ Len(calls[p][k].arg) = Len(ranked(p))
        /\ \A i \in DOMAIN ranked(p) : calls[p][k].arg[i] = ranked(p)[i].id
    /\ pc[p] = "returned" =>
        /\ \A i \in DOMAIN Returned(p) :
            Returned(p)[i].avatar = AvatarOrNone(p, Returned(p)[i].id)
        /\ \A i \in DOMAIN ranked(p) :
            \E j \in DOMAIN Returned(p) : Returned(p)[j].id = ranked(p)[i].id

\* C9: the avatar fetch is issued once, as the sixth call, after the five
\* fetches completed, with the ids of the truncated ranked sequence in rank
\* order; afterwards every entry of that sequence is returned in a layer with
\* the avatar fetched for its id, or with none when the id is absent.
C9_AvatarFetch == AvatarFetchAsClaimed(1)

\* C9 holds for the requests of at most three layers
C9_AtMostThreeLayers == Len(layers[1]) <= 3 => AvatarFetchAsClaimed(1)

recordedAlone(p) ==
    countLikes(
        countRetweets(
            countReplies(
                countMentions(<<>>, mentions[p], screen_name[p], fetched[p]),
                timeline[p], screen_name[p], fetched[p]),
            timeline[p], screen_name[p], fetched[p]),
        liked[p], screen_name[p], fetched[p])

\* what the computation returns when no other computation runs
resultAlone(p) ==
    partition(attach(slice(sortTally(makeTally(recordedAlone(p))),
                           sumLayers(layers[p])),
                     avatars[p]),
              layers[p])

\* C3: two computations for different subjects do not interfere: each records
\* what it would record against the follower set fetched for its own subject,
\* and returns what it would return if run alone on the same fetched data.
C3_NoInterference ==
    \A p \in Procs :
        /\ Recorded(p) => interactions[p] = recordedAlone(p)
        /\ pc[p] = "returned" => result[p] = resultAlone(p)

\* C3 holds of a computation that runs alone
C3_Alone ==
    /\ Recorded(1) => interactions[1] = recordedAlone(1)
    /\ pc[1] = "returned" => result[1] = resultAlone(1)

OrderDone == pc[1] = "rank" /\ perm.applied = CountFns

\* C6: the four count functions in any order, over any permutation of each
\* collection, give the same mapping: the same ids, counts and screen_names.
C6_SameMapping == OrderDone => Range(perm.mapping) = Range(interactions[1])

CountsOf(mapping) ==
    {[id |-> r.id, reply |-> r.reply, retweet |-> r.retweet, like |-> r.like,
      mention |-> r.mention] : r \in Range(mapping)}

\* the handles the counted items give the account id
CountedHandles(p, id) ==
    {mentions[p][k].user.screen_name : k \in {k \in DOMAIN mentions[p] :
        /\ mentions[p][k].user.id_str = id
        /\ authorCounts(mentions[p][k], screen_name[p], followers)}}
    \cup {liked[p][k].user.screen_name : k \in {k \in DOMAIN liked[p] :
        /\ liked[p][k].user.id_str = id
        /\ authorCounts(liked[p][k], screen_name[p], followers)}}
    \cup {timeline[p][k].in_reply_to_screen_name : k \in {k \in DOMAIN timeline[p] :
        /\ timeline[p][k].in_reply_to_user_id_str = id
        /\ replyCounts(timeline[p][k], screen_name[p], followers)}}
    \cup {Original(timeline[p][k]).screen_name : k \in {k \in DOMAIN timeline[p] :
        /\ retweetCounts(timeline[p][k], screen_name[p], followers)
        /\ Original(timeline[p][k]).id_str = id}}

\* C6, amended: any order gives the same ids and the same four counts per id;
\* the stored screen_name is one of the handles the counted items give the id,
\* so it is the same too when those items all carry one handle.
C6_SameCounts ==
    OrderDone =>
        /\ CountsOf(perm.mapping) = CountsOf(interactions[1])
        /\ \A r \in Range(perm.mapping) \cup Range(interactions[1]) :
            r.screen_name \in CountedHandles(1, r.id)
        /\ \A r \in Range(perm.mapping), q \in Range(interactions[1]) :
            (r.id = q.id /\ Cardinality(CountedHandles(1, r.id)) = 1) =>
                r.screen_name = q.screen_name

\* an account counted three times under two spellings, stored under either
C6_Witness ==
    /\ OrderDone
    /\ Range(perm.mapping) # Range(interactions[1])
    /\ \E r \in Range(interactions[1]) : r.mention + r.reply + r.retweet + r.like >= 3
    /\ Len(interactions[1]) = 2

====
